---------------------------- MODULE Spec2Model ----------------------------
(***************************************************************************)
(* DevNum (src/src/devnum.py): fixed-precision decimal floating point.     *)
(*                                                                         *)
(* The operations of class Floating are pure functions of a format and of  *)
(* their operands.  They are operators here, translated statement by       *)
(* statement; the state machine draws operands from bounded sets, applies  *)
(* one operation and records the outcome.  sin and sqrt hold a loop, so    *)
(* each is a small process: a start action, one action per loop iteration  *)
(* and an exit action.                                                     *)
(*                                                                         *)
(* Python integers are unbounded and TLC's are 32 bits wide, so the        *)
(* formats the machine runs are built by the source's own constructor with *)
(* one and two mantissa digits: every intermediate value then fits.  The   *)
(* one loop whose bad case needs ten mantissa digits (sqrt) is transcribed *)
(* a second time over decimal digit strings.                               *)
(***************************************************************************)
EXTENDS Integers, Sequences, FiniteSets, TLC

VARIABLES pc, op, fmt, args, res, loc

vars == <<pc, op, fmt, args, res, loc>>

---------------------------------------------------------------------------
(* Bounds of the inputs the machine draws.                                 *)

\* pack is given mantissas of up to MaxPackDigits decimal digits
MaxPackDigits == 3

\* pack is given exponents up to ExpSlack outside [EXPONENT_MIN, EXPONENT_MAX]
ExpSlack == 2

\* pack's `expected` is the mantissa's true digit count, or this far off it
ExpectedSlack == 1

\* the sin loop is followed until `order` reaches MaxOrder
MaxOrder == 21

---------------------------------------------------------------------------
(* Python's integer operators.                                             *)

Abs(n) == IF n < 0 THEN -n ELSE n

Min(a, b) == IF a <= b THEN a ELSE b

Max(a, b) == IF a >= b THEN a ELSE b

\* a // b: the quotient rounded toward minus infinity, for either sign of b
FloorDiv(a, b) == a \div b

\* a % b for b > 0
PyMod(a, b) == a - b * (a \div b)

\* a // b where |b| exceeds |a|: 0 when the signs agree (or a = 0), else -1.
\* bSign is the sign of b.  Used where b itself is beyond TLC's integers.
FloorDivHuge(a, bSign) ==
    IF a = 0 \/ (a > 0) = (bSign > 0) THEN 0 ELSE -1

RECURSIVE bit_length(_)
\* n.bit_length() for n >= 0
bit_length(n) == IF n = 0 THEN 0 ELSE 1 + bit_length(n \div 2)

RECURSIVE BitOr(_, _)
\* a | b for a, b >= 0
BitOr(a, b) ==
    IF a = 0 THEN b
    ELSE IF b = 0 THEN a
    ELSE (IF a % 2 = 1 \/ b % 2 = 1 THEN 1 ELSE 0) + 2 * BitOr(a \div 2, b \div 2)

RECURSIVE BitXor(_, _)
\* a ^ b for a, b >= 0
BitXor(a, b) ==
    IF a = 0 THEN b
    ELSE IF b = 0 THEN a
    ELSE (IF (a % 2) # (b % 2) THEN 1 ELSE 0) + 2 * BitXor(a \div 2, b \div 2)

\* a << k
ShiftLeft(a, k) == a * 2^k

\* int(math.ceil(math.log2(n))) for n >= 1
CeilLog2(n) == CHOOSE k \in 0..30 : 2^k >= n /\ (k = 0 \/ 2^(k-1) < n)

---------------------------------------------------------------------------
(* The power table.                                                        *)

MAX_DIGITS == 1000

\* P[i]: the table holds 10^i for i in range(3 * MAX_DIGITS); a negative index
\* counts from the end of the list
P(i) == 10^(IF i >= 0 THEN i ELSE MAX_DIGITS * 3 + i)

\* MIDPOINTS[i], for an index i >= 0
MIDPOINTS(i) == IF i = 0 THEN 1 ELSE (P(i) \div 2) - 1

\* _log10(n): the number of decimal digits of |n|, 0 for n = 0
_log10(n) ==
    LET a == Abs(n)
        r == (bit_length(a) * 315653) \div 1048576
    IN  IF a >= P(r) THEN r + 1 ELSE r

---------------------------------------------------------------------------
(* Format descriptors and numbers.                                         *)

Base10(digits) == [BASE |-> 10, DIGITS |-> digits]

Base2(digits) == [BASE |-> 2, DIGITS |-> digits]

\* Floating.__init__; the cached constants are the operators zero, undefined, tau
Floating(NAME, MANTISSA, EXPONENT) ==
    LET emax == EXPONENT.BASE^EXPONENT.DIGITS - 1
        mmax == 10^MANTISSA.DIGITS - 1
        mbits == CeilLog2(mmax)
        ebits == CeilLog2(emax)
    IN  [NAME          |-> NAME,
         DIGITS        |-> MANTISSA.DIGITS,
         EXPONENT_MAX  |-> emax,
         EXPONENT_MIN  |-> -emax,
         SPECIAL       |-> -emax - 1,
         MANTISSA_MAX  |-> mmax,
         MANTISSA_MIN  |-> 10^(MANTISSA.DIGITS - 1),
         MANTISSA_BITS |-> mbits,
         EXPONENT_BITS |-> ebits,
         MASK          |-> ShiftLeft(1, mbits + ebits + 2) - 1]

\* Num.__init__; `format` is the descriptor's NAME
Num(mantissa, exponent, self) ==
    [kind |-> "num", mantissa |-> mantissa, exponent |-> exponent, format |-> self.NAME]

\* an exception leaving the operation
Raise(error) == [kind |-> "raise", error |-> error]

\* a comparison's result
Bool(b) == [kind |-> "bool", value |-> b]

zero(self) == Num(0, self.SPECIAL, self)

undefined(self) == Num(-1, self.SPECIAL, self)

\* isNumber with the special exponent accepted for every mantissa, not for 0 alone
isNumber_AnySpecial(self, n) ==
    LET M == Abs(n.mantissa)
        E == n.exponent
    IN  n.exponent = self.SPECIAL
        \/ (self.MANTISSA_MIN <= M /\ M <= self.MANTISSA_MAX
            /\ self.EXPONENT_MIN <= E /\ E <= self.EXPONENT_MAX)

isNumber(self, n) ==
    LET M == Abs(n.mantissa)
        E == n.exponent
    IN  (n.exponent = self.SPECIAL /\ n.mantissa = 0)
        \/ (self.MANTISSA_MIN <= M /\ M <= self.MANTISSA_MAX
            /\ self.EXPONENT_MIN <= E /\ E <= self.EXPONENT_MAX)

isInvalid(self, n) == ~isNumber(self, n)

isUndefined(self, n) == n.exponent = self.SPECIAL /\ n.mantissa = -1

validate(self, n) == IF isNumber(self, n) THEN n ELSE undefined(self)

---------------------------------------------------------------------------
(* The normalizer.                                                         *)

\* lines 103-105: |mantissa| cut by INDEX digits and rounded
packRound(mantissa, INDEX) ==
    LET truncated == Abs(mantissa) \div P(INDEX)
        remainder == Abs(mantissa) % P(INDEX)
        midpoint  == MIDPOINTS(INDEX) + (truncated % 2)
    IN  truncated + (IF remainder >= midpoint THEN 1 ELSE 0)

\* the carry case with the further digit left in
packCarry_NoCut(rounded) == rounded

\* lines 109-111: the carry case, one further digit cut
packCarry(rounded) ==
    LET truncated == rounded \div 10
        remainder == rounded % 10
        midpoint  == 4 + (truncated % 2)
    IN  truncated + (IF remainder >= midpoint THEN 1 ELSE 0)

\* pack with the carry's `exponent += 1` (line 112) left out
pack_NoCarryExponent(self, mantissa, exponent, expected) ==
    LET M_DIGITS == _log10(mantissa)
        INDEX    == M_DIGITS - self.DIGITS
        rounded  == packRound(mantissa, INDEX)
        carry    == INDEX > 0 /\ rounded > self.MANTISSA_MAX
        kept     == IF carry THEN packCarry(rounded) ELSE rounded
        m        == IF INDEX > 0
                    THEN (IF mantissa >= 0 THEN kept ELSE -kept)
                    ELSE mantissa * P(-INDEX)
        e        == exponent + (M_DIGITS - expected)
    IN  IF m = 0 THEN zero(self)
        ELSE IF e > self.EXPONENT_MAX THEN undefined(self)
        ELSE IF e < self.EXPONENT_MIN THEN zero(self)
        ELSE Num(m, e, self)

pack(self, mantissa, exponent, expected) ==
    LET M_DIGITS == _log10(mantissa)
        INDEX    == M_DIGITS - self.DIGITS
        rounded  == packRound(mantissa, INDEX)
        carry    == INDEX > 0 /\ rounded > self.MANTISSA_MAX
        kept     == IF carry THEN packCarry(rounded) ELSE rounded
        m        == IF INDEX > 0
                    THEN (IF mantissa >= 0 THEN kept ELSE -kept)
                    ELSE mantissa * P(-INDEX)
        e        == exponent + (IF carry THEN 1 ELSE 0) + (M_DIGITS - expected)
    IN  IF m = 0 THEN zero(self)
        ELSE IF e > self.EXPONENT_MAX THEN undefined(self)
        ELSE IF e < self.EXPONENT_MIN THEN zero(self)
        ELSE Num(m, e, self)

\* unpack's result is an int, or the float that `/` makes of two ints
PyInt(v) == [type |-> "int", val |-> v]

\* a float; its value is never read: the next use of it raises
PyFloat == [type |-> "float"]

\* X + Y: int + int is an int, a float operand makes a float
PyAdd(X, Y) ==
    IF X.type = "int" /\ Y.type = "int" THEN PyInt(X.val + Y.val) ELSE PyFloat

\* X - Y
PySub(X, Y) ==
    IF X.type = "int" /\ Y.type = "int" THEN PyInt(X.val - Y.val) ELSE PyFloat

unpack(self, number, exponent) ==
    LET INDEX == number.exponent - exponent
    IN  IF INDEX >= 0
        THEN PyInt(number.mantissa * P(INDEX))
        ELSE PyFloat    \* number.mantissa / P[min(-INDEX, self.DIGITS)]

\* pack(value, exponent, expected) for an int or a float value: pack begins with
\* _log10(mantissa), which calls mantissa.bit_length(), and float has none
packObject(self, value, exponent, expected) ==
    IF value.type = "float"
    THEN Raise("AttributeError")
    ELSE pack(self, value.val, exponent, expected)

---------------------------------------------------------------------------
(* The arithmetic engine.                                                  *)

add(self, x, y) ==
    IF isInvalid(self, x) \/ isInvalid(self, y) THEN undefined(self)
    ELSE LET E == Max(x.exponent, y.exponent)
             X == unpack(self, x, E - self.DIGITS)
             Y == unpack(self, y, E - self.DIGITS)
         IN  packObject(self, PyAdd(X, Y), E, self.DIGITS * 2)

sub(self, x, y) ==
    IF isInvalid(self, x) \/ isInvalid(self, y) THEN undefined(self)
    ELSE LET E == Max(x.exponent, y.exponent)
             X == unpack(self, x, E - self.DIGITS)
             Y == unpack(self, y, E - self.DIGITS)
         IN  packObject(self, PySub(X, Y), E, self.DIGITS * 2)

mul(self, x, y) ==
    IF isInvalid(self, x) \/ isInvalid(self, y) THEN undefined(self)
    ELSE pack(self, x.mantissa * y.mantissa, x.exponent + y.exponent, self.DIGITS * 2 - 1)

div(self, x, y) ==
    IF isInvalid(self, x) \/ isInvalid(self, y) \/ y.mantissa = 0 THEN undefined(self)
    ELSE LET EXTRA_DIGITS == 1
         IN  pack(self,
                  FloorDiv(x.mantissa * P(self.DIGITS + EXTRA_DIGITS),
                           y.mantissa * P(EXTRA_DIGITS)),
                  x.exponent - y.exponent,
                  self.DIGITS + 1)

\* xm // ym of mod, where ym = y.mantissa * P[self.DIGITS - D].  For D > DIGITS
\* the index is negative and P[...] is a power of ten of nearly 3000 digits:
\* the quotient is then 0 or -1 by the signs alone.
modQuotient(self, x, y, D) ==
    LET xm == x.mantissa * P(self.DIGITS)
    IN  IF self.DIGITS - D >= 0
        THEN FloorDiv(xm, y.mantissa * P(self.DIGITS - D))
        ELSE FloorDivHuge(xm, y.mantissa)

mod(self, x, y) ==
    IF isInvalid(self, x) \/ isInvalid(self, y) \/ y.mantissa = 0 THEN undefined(self)
    ELSE IF x.exponent < y.exponent THEN x
    ELSE LET D   == Min(x.exponent - y.exponent, 15)
             rm1 == modQuotient(self, x, y, D)
             rm2 == rm1 * y.mantissa
             rm  == (x.mantissa * P(D)) - rm2
         IN  pack(self, rm, 0, self.DIGITS)

---------------------------------------------------------------------------
(* The order encoder and the comparisons.                                  *)

_compact(self, x) ==
    LET body == BitOr(Abs(x.mantissa),
                      ShiftLeft(x.exponent - self.SPECIAL, self.MANTISSA_BITS))
    IN  IF x.mantissa < 0 THEN -(BitXor(body, self.MASK)) ELSE body

eq(self, x, y) == x.exponent = y.exponent /\ x.mantissa = y.mantissa

ge(self, x, y) == _compact(self, x) >= _compact(self, y)

gt(self, x, y) == _compact(self, x) > _compact(self, y)

le(self, x, y) == _compact(self, x) <= _compact(self, y)

lt(self, x, y) == _compact(self, x) < _compact(self, y)

ne(self, x, y) == x.exponent # y.exponent \/ x.mantissa # y.mantissa

---------------------------------------------------------------------------
(* The transcendental module.                                              *)

\* The leading digits of the 1000-digit literal TAU.  self.tau is
\* pack(TAU, 0, 1000); rounding TAU to one or two digits is decided by its
\* leading digits, so the head packed with its own digit count gives the same
\* Number.
TAU == 6283

tau(self) == pack(self, TAU, 0, _log10(TAU))

\* one update of the Taylor term: term = (term * n2) // ((order - 1) * order * SCALE)
sinTerm(term, n2, order, SCALE) == FloorDiv(term * n2, (order - 1) * order * SCALE)

\* sin up to the loop: the locals as the loop is entered
sinEnter(self, number0) ==
    LET EXTRA_DIGITS == 2
        number == mod(self, number0, tau(self))
        term   == number.mantissa * P(EXTRA_DIGITS)
    IN  [proc   |-> "sin",
         number |-> number,
         term   |-> term,
         n2     |-> FloorDiv(term * term, P(Max(-2 * number.exponent, 0))),
         SCALE  |-> P((self.DIGITS + EXTRA_DIGITS - 1) * 2),
         result |-> term,
         order  |-> 1]

\* one pass of the loop body: two terms of the series
sinBody(l) ==
    LET order1 == l.order + 2
        term1  == sinTerm(l.term, l.n2, order1, l.SCALE)
        order2 == order1 + 2
        term2  == sinTerm(term1, l.n2, order2, l.SCALE)
    IN  [l EXCEPT !.order = order2, !.term = term2,
                  !.result = (l.result - term1) + term2]

\* the return after the loop
sinReturn(self, l) == pack(self, l.result, l.number.exponent, self.DIGITS + 2)

\* sqrt up to the loop: `original` and the linear seed.  `prev` is no local of
\* the code: it remembers the iterate before `result`, 0 while there is none.
sqrtEnter(self, number) ==
    LET EXTRA_DIGITS == 2
    IN  IF PyMod(number.exponent, 2) = 0
        THEN [proc     |-> "sqrt",
              number   |-> number,
              original |-> number.mantissa * P(self.DIGITS + EXTRA_DIGITS * 2 - 1),
              result   |-> (number.mantissa * 28 + 89 * P(self.DIGITS - 1))
                               * P(EXTRA_DIGITS - 2),
              prev     |-> 0]
        ELSE [proc     |-> "sqrt",
              number   |-> number,
              original |-> number.mantissa * P(self.DIGITS + EXTRA_DIGITS * 2),
              result   |-> (number.mantissa * 89 + 28 * P(self.DIGITS))
                               * P(EXTRA_DIGITS - 2),
              prev     |-> 0]

\* NEXT = (result + (original // result)) // 2
sqrtNEXT(original, result) == FloorDiv(result + FloorDiv(original, result), 2)

\* the return after the loop
sqrtReturn(self, l) ==
    pack(self, l.result, FloorDiv(l.number.exponent, 2), self.DIGITS + 2)

---------------------------------------------------------------------------
(* Integers too long for TLC: a natural number as the sequence of its      *)
(* decimal digits, the most significant first, 0 as the empty sequence.    *)

Front(d) == SubSeq(d, 1, Len(d) - 1)

Last(d) == d[Len(d)]

RECURSIVE Dec(_)
\* the digits of n >= 0
Dec(n) == IF n = 0 THEN <<>> ELSE Append(Dec(n \div 10), n % 10)

RECURSIVE DVal(_)
\* the number a (short) digit sequence stands for
DVal(d) == IF d = <<>> THEN 0 ELSE 10 * DVal(Front(d)) + Last(d)

RECURSIVE DStrip(_)
\* leading zeros dropped
DStrip(d) == IF d # <<>> /\ Head(d) = 0 THEN DStrip(Tail(d)) ELSE d

RECURSIVE DLexLess(_, _)
\* a < b, digit by digit, for sequences of one length
DLexLess(a, b) ==
    IF a = <<>> THEN FALSE
    ELSE IF Head(a) # Head(b) THEN Head(a) < Head(b)
    ELSE DLexLess(Tail(a), Tail(b))

\* a < b
DLess(a, b) == Len(a) < Len(b) \/ (Len(a) = Len(b) /\ DLexLess(a, b))

RECURSIVE DAddC(_, _, _)
\* a + b + c, c a carry
DAddC(a, b, c) ==
    IF a = <<>> /\ b = <<>> THEN Dec(c)
    ELSE LET x == IF a = <<>> THEN 0 ELSE Last(a)
             y == IF b = <<>> THEN 0 ELSE Last(b)
             t == x + y + c
         IN  Append(DAddC(IF a = <<>> THEN a ELSE Front(a),
                          IF b = <<>> THEN b ELSE Front(b), t \div 10), t % 10)

\* a + b
DAdd(a, b) == DAddC(a, b, 0)

RECURSIVE DSubC(_, _, _)
\* a - b - c for a >= b + c, c a borrow; leading zeros are left in
DSubC(a, b, c) ==
    IF a = <<>> THEN <<>>
    ELSE LET y == IF b = <<>> THEN 0 ELSE Last(b)
             t == Last(a) - y - c
         IN  Append(DSubC(Front(a), IF b = <<>> THEN b ELSE Front(b),
                          IF t < 0 THEN 1 ELSE 0),
                    IF t < 0 THEN t + 10 ELSE t)

\* a - b for a >= b
DSub(a, b) == DStrip(DSubC(a, b, 0))

RECURSIVE DMulC(_, _, _)
\* a * k + c for a small k
DMulC(a, k, c) ==
    IF a = <<>> THEN Dec(c)
    ELSE LET t == Last(a) * k + c
         IN  Append(DMulC(Front(a), k, t \div 10), t % 10)

\* a * k for a small k
DMulSmall(a, k) == DStrip(DMulC(a, k, 0))

\* a * P[n]
DShift(a, n) == IF a = <<>> THEN a ELSE a \o [i \in 1..n |-> 0]

RECURSIVE DHalfR(_, _)
\* the digits of (r * 10^Len(a) + a) // 2, leading zeros left in (r is 0 or 1)
DHalfR(a, r) ==
    IF a = <<>> THEN <<>>
    ELSE LET t == 10 * r + Head(a)
         IN  <<t \div 2>> \o DHalfR(Tail(a), t % 2)

\* a // 2
DHalf(a) == DStrip(DHalfR(a, 0))

RECURSIVE DCount(_, _)
\* r // b for r < 10 * b
DCount(r, b) == IF DLess(r, b) THEN 0 ELSE 1 + DCount(DSub(r, b), b)

RECURSIVE DRem(_, _)
\* r % b for r < 10 * b
DRem(r, b) == IF DLess(r, b) THEN r ELSE DRem(DSub(r, b), b)

RECURSIVE DDivR(_, _, _)
\* long division: the digits of (r * 10^Len(a) + a) // b for r < b
DDivR(a, b, r) ==
    IF a = <<>> THEN <<>>
    ELSE LET t == DStrip(Append(r, Head(a)))
         IN  <<DCount(t, b)>> \o DDivR(Tail(a), b, DRem(t, b))

\* a // b for b > 0
DDiv(a, b) == DStrip(DDivR(a, b, <<>>))

---------------------------------------------------------------------------
(* sqrt where a mantissa has ten digits: the statements of sqrt and of     *)
(* pack over digit sequences.  The operand is finite with a positive       *)
(* mantissa, so lines 254-255 do not return.                               *)

\* the fields of Floating.__init__ that sqrt and pack read
FloatingWide(NAME, MANTISSA, EXPONENT) ==
    LET emax == EXPONENT.BASE^EXPONENT.DIGITS - 1
    IN  [NAME         |-> NAME,
         DIGITS       |-> MANTISSA.DIGITS,
         EXPONENT_MAX |-> emax,
         EXPONENT_MIN |-> -emax,
         SPECIAL      |-> -emax - 1]

\* a Num whose mantissa is sign * digits
NumWide(sign, digits, exponent, self) ==
    [kind |-> "num", sign |-> sign, digits |-> digits,
     exponent |-> exponent, format |-> self.NAME]

\* pack of a mantissa >= 0 given as digits; _log10 is the digit count
packWide(self, mantissa, exponent, expected) ==
    LET M_DIGITS   == Len(mantissa)
        INDEX      == M_DIGITS - self.DIGITS
        truncated  == SubSeq(mantissa, 1, self.DIGITS)
        remainder  == DVal(SubSeq(mantissa, self.DIGITS + 1, M_DIGITS))
        midpoint   == MIDPOINTS(INDEX) + (Last(truncated) % 2)
        rounded    == IF remainder >= midpoint THEN DAdd(truncated, <<1>>) ELSE truncated
        carry      == INDEX > 0 /\ Len(rounded) > self.DIGITS
        truncated2 == Front(rounded)
        midpoint2  == 4 + (Last(truncated2) % 2)
        kept       == IF ~carry THEN rounded
                      ELSE IF Last(rounded) >= midpoint2
                      THEN DAdd(truncated2, <<1>>) ELSE truncated2
        m          == IF INDEX > 0 THEN kept ELSE DShift(mantissa, -INDEX)
        e          == exponent + (IF carry THEN 1 ELSE 0) + (M_DIGITS - expected)
    IN  IF m = <<>> THEN NumWide(0, <<>>, self.SPECIAL, self)
        ELSE IF e > self.EXPONENT_MAX THEN NumWide(-1, <<1>>, self.SPECIAL, self)
        ELSE IF e < self.EXPONENT_MIN THEN NumWide(0, <<>>, self.SPECIAL, self)
        ELSE NumWide(1, m, e, self)

\* sqrt up to the loop
sqrtEnterWide(self, number) ==
    LET EXTRA_DIGITS == 2
    IN  IF PyMod(number.exponent, 2) = 0
        THEN [proc     |-> "sqrtWide",
              number   |-> number,
              original |-> DShift(number.digits, self.DIGITS + EXTRA_DIGITS * 2 - 1),
              result   |-> DShift(DAdd(DMulSmall(number.digits, 28),
                                       DShift(Dec(89), self.DIGITS - 1)),
                                  EXTRA_DIGITS - 2),
              prev     |-> <<>>]
        ELSE [proc     |-> "sqrtWide",
              number   |-> number,
              original |-> DShift(number.digits, self.DIGITS + EXTRA_DIGITS * 2),
              result   |-> DShift(DAdd(DMulSmall(number.digits, 89),
                                       DShift(Dec(28), self.DIGITS)),
                                  EXTRA_DIGITS - 2),
              prev     |-> <<>>]

\* NEXT = (result + (original // result)) // 2
sqrtNEXTWide(original, result) == DHalf(DAdd(result, DDiv(original, result)))

\* the return after the loop
sqrtReturnWide(self, l) ==
    packWide(self, l.result, FloorDiv(l.number.exponent, 2), self.DIGITS + 2)

---------------------------------------------------------------------------
(* The formats the machine runs.                                           *)

F1 == Floating("F1", Base10(1), Base2(2))

F2 == Floating("F2", Base10(2), Base2(2))

Formats == {F1, F2}

\* a format of a narrower exponent range: Floating('F0', Base10(1), Base2(1))
F0 == Floating("F0", Base10(1), Base2(1))

\* the formats between which Numbers are converted
AllFormats == Formats \cup {F0}

\* ten mantissa digits: Floating('F10', Base10(10), Base2(2))
F10 == FloatingWide("F10", Base10(10), Base2(2))

FormatOf(name) == CHOOSE f \in AllFormats : f.NAME = name

---------------------------------------------------------------------------
(* The operands the machine draws.                                         *)

\* the integers of at most d decimal digits
UpToDigits(d) == -(10^d - 1) .. (10^d - 1)

PackMantissas == UpToDigits(MaxPackDigits)

PackExponents(self) == (self.EXPONENT_MIN - ExpSlack) .. (self.EXPONENT_MAX + ExpSlack)

\* `expected` is the mantissa's digit count, or ExpectedSlack off it either way
PackExpected(mantissa) ==
    {d \in {_log10(mantissa) - ExpectedSlack, _log10(mantissa),
            _log10(mantissa) + ExpectedSlack} : d >= 0}

\* every finite Number of a format
Finite(self) ==
    {Num(s * m, e, self) : s \in {-1, 1},
                           m \in self.MANTISSA_MIN .. self.MANTISSA_MAX,
                           e \in self.EXPONENT_MIN .. self.EXPONENT_MAX}

\* the canonical Numbers that are not undefined
Valid(self) == Finite(self) \cup {zero(self)}

\* (mantissa, exponent) pairs outside the canonical form, one of each shape
Malformed(self) ==
    {Num(0, 0, self),                          \* zero mantissa, finite exponent
     Num(self.MANTISSA_MAX + 1, 0, self),      \* mantissa too long
     Num(-(self.MANTISSA_MIN - 1), 0, self),   \* mantissa too short (F2)
     Num(self.MANTISSA_MIN, self.EXPONENT_MAX + 1, self),
     Num(self.MANTISSA_MAX, self.SPECIAL, self)}

Invalid(self) == Malformed(self) \cup {undefined(self)}

Operands(self) == Valid(self) \cup Invalid(self)

\* sqrt's ten-digit operands: the first and the last mantissa, and around
\* 2675652504
WideMantissas ==
    {<<1,0,0,0,0,0,0,0,0,0>>, <<2,6,7,5,6,5,2,5,0,3>>, <<2,6,7,5,6,5,2,5,0,4>>,
     <<2,6,7,5,6,5,2,5,0,5>>, <<9,9,9,9,9,9,9,9,9,9>>}

WideOperands(self) ==
    {NumWide(1, m, e, self) : m \in WideMantissas,
                              e \in self.EXPONENT_MIN .. self.EXPONENT_MAX}

\* sin's operands: above exponent 1 the products of the series pass 2^31
SinOperands(self) == {n \in Operands(self) : isInvalid(self, n) \/ n.exponent <= 1}

\* the right operands of the cross-format operators: every invalid pair of a
\* format, its zero, and its finite Numbers of the least and the greatest mantissa
CrossOperands(self) ==
    Invalid(self) \cup {zero(self)}
        \cup {n \in Finite(self) : Abs(n.mantissa) \in {self.MANTISSA_MIN, self.MANTISSA_MAX}}

---------------------------------------------------------------------------
(* Conversion between formats, and the operators of class Num.             *)

\* Floating.__call__ for a Num argument (an int or a float goes to make or to
\* fromFloat): lines 60-61
__call__(self, number) ==
    IF number.format = self.NAME THEN number
    ELSE pack(self, number.mantissa, number.exponent, FormatOf(number.format).DIGITS)

\* Num.__add__, __sub__, __mul__, __truediv__, __mod__: the right operand is
\* converted into the left operand's format
__add__(x, other) == add(FormatOf(x.format), x, __call__(FormatOf(x.format), other))

__sub__(x, other) == sub(FormatOf(x.format), x, __call__(FormatOf(x.format), other))

__mul__(x, other) == mul(FormatOf(x.format), x, __call__(FormatOf(x.format), other))

__truediv__(x, other) == div(FormatOf(x.format), x, __call__(FormatOf(x.format), other))

__mod__(x, other) == mod(FormatOf(x.format), x, __call__(FormatOf(x.format), other))

---------------------------------------------------------------------------
(* The machine.                                                            *)

NoArgs == [none |-> TRUE]

NoLoc == [proc |-> "none"]

NoRes == [kind |-> "none"]

ArithOps == {"add", "sub", "mul", "div", "mod"}

CompareOps == {"eq", "ge", "gt", "le", "lt", "ne"}

NumOps == {"__add__", "__sub__", "__mul__", "__truediv__", "__mod__"}

Init ==
    /\ pc = "idle"
    /\ op = "none"
    /\ fmt = "none"
    /\ args = NoArgs
    /\ res = NoRes
    /\ loc = NoLoc

\* a call made at "idle" returns at once
Returns(name, self, a, r) ==
    /\ pc' = "done"
    /\ op' = name
    /\ fmt' = self.NAME
    /\ args' = a
    /\ res' = r
    /\ loc' = NoLoc

\* a call made at "idle" enters its loop with locals l
Enters(name, self, a, l) ==
    /\ pc' = "loop"
    /\ op' = name
    /\ fmt' = self.NAME
    /\ args' = a
    /\ res' = NoRes
    /\ loc' = l

Pack ==
    /\ pc = "idle"
    /\ \E self \in Formats, mantissa \in PackMantissas :
       \E exponent \in PackExponents(self), expected \in PackExpected(mantissa) :
           Returns("pack", self,
                   [mantissa |-> mantissa, exponent |-> exponent, expected |-> expected],
                   pack(self, mantissa, exponent, expected))

Add ==
    /\ pc = "idle"
    /\ \E x \in Operands(F1), y \in Operands(F1) :
           Returns("add", F1, [x |-> x, y |-> y], add(F1, x, y))

Sub ==
    /\ pc = "idle"
    /\ \E x \in Operands(F1), y \in Operands(F1) :
           Returns("sub", F1, [x |-> x, y |-> y], sub(F1, x, y))

Mul ==
    /\ pc = "idle"
    /\ \E x \in Operands(F1), y \in Operands(F1) :
           Returns("mul", F1, [x |-> x, y |-> y], mul(F1, x, y))

Div ==
    /\ pc = "idle"
    /\ \E x \in Operands(F1), y \in Operands(F1) :
           Returns("div", F1, [x |-> x, y |-> y], div(F1, x, y))

Mod ==
    /\ pc = "idle"
    /\ \E x \in Operands(F1), y \in Operands(F1) :
           Returns("mod", F1, [x |-> x, y |-> y], mod(F1, x, y))

compare(name, self, x, y) ==
    CASE name = "eq" -> eq(self, x, y)
      [] name = "ge" -> ge(self, x, y)
      [] name = "gt" -> gt(self, x, y)
      [] name = "le" -> le(self, x, y)
      [] name = "lt" -> lt(self, x, y)
      [] name = "ne" -> ne(self, x, y)

Compare ==
    /\ pc = "idle"
    /\ \E name \in CompareOps, x \in Operands(F1), y \in Operands(F1) :
           Returns(name, F1, [x |-> x, y |-> y], Bool(compare(name, F1, x, y)))

\* sin: line 221 returns undefined, otherwise the loop is entered
Sin ==
    /\ pc = "idle"
    /\ \E number \in SinOperands(F1) :
           IF isInvalid(F1, number)
           THEN Returns("sin", F1, [number |-> number], undefined(F1))
           ELSE Enters("sin", F1, [number |-> number], sinEnter(F1, number))

\* while term != 0: one pass of the body
SinLoop ==
    /\ pc = "loop"
    /\ loc.proc = "sin"
    /\ loc.term # 0
    /\ loc.order < MaxOrder
    /\ loc' = sinBody(loc)
    /\ UNCHANGED <<pc, op, fmt, args, res>>

\* term == 0: the loop is left and the result packed
SinReturn ==
    /\ pc = "loop"
    /\ loc.proc = "sin"
    /\ loc.term = 0
    /\ pc' = "done"
    /\ res' = sinReturn(FormatOf(fmt), loc)
    /\ UNCHANGED <<op, fmt, args, loc>>

\* sqrt: lines 254-255 return at once, otherwise the loop is entered
Sqrt ==
    /\ pc = "idle"
    /\ \E self \in Formats : \E number \in Operands(self) :
           IF isInvalid(self, number) \/ number.mantissa < 0
           THEN Returns("sqrt", self, [number |-> number], undefined(self))
           ELSE IF number.mantissa = 0
           THEN Returns("sqrt", self, [number |-> number], zero(self))
           ELSE Enters("sqrt", self, [number |-> number], sqrtEnter(self, number))

\* NEXT != result: result = NEXT
SqrtLoop ==
    /\ pc = "loop"
    /\ loc.proc = "sqrt"
    /\ sqrtNEXT(loc.original, loc.result) # loc.result
    /\ loc' = [loc EXCEPT !.result = sqrtNEXT(loc.original, loc.result),
                          !.prev = loc.result]
    /\ UNCHANGED <<pc, op, fmt, args, res>>

\* NEXT == result: break, and the result is packed
SqrtReturn ==
    /\ pc = "loop"
    /\ loc.proc = "sqrt"
    /\ sqrtNEXT(loc.original, loc.result) = loc.result
    /\ pc' = "done"
    /\ res' = sqrtReturn(FormatOf(fmt), loc)
    /\ UNCHANGED <<op, fmt, args, loc>>

\* sqrt of a ten-digit operand: the loop is entered
SqrtWide ==
    /\ pc = "idle"
    /\ \E number \in WideOperands(F10) :
           Enters("sqrtWide", F10, [number |-> number], sqrtEnterWide(F10, number))

\* NEXT != result: result = NEXT
SqrtWideLoop ==
    /\ pc = "loop"
    /\ loc.proc = "sqrtWide"
    /\ sqrtNEXTWide(loc.original, loc.result) # loc.result
    /\ loc' = [loc EXCEPT !.result = sqrtNEXTWide(loc.original, loc.result),
                          !.prev = loc.result]
    /\ UNCHANGED <<pc, op, fmt, args, res>>

\* NEXT == result: break, and the result is packed
SqrtWideReturn ==
    /\ pc = "loop"
    /\ loc.proc = "sqrtWide"
    /\ sqrtNEXTWide(loc.original, loc.result) = loc.result
    /\ pc' = "done"
    /\ res' = sqrtReturnWide(F10, loc)
    /\ UNCHANGED <<op, fmt, args, loc>>

\* format(number): a Number of any format converted into `self`
Call ==
    /\ pc = "idle"
    /\ \E self \in AllFormats, from \in AllFormats :
       \E number \in Operands(from) :
           Returns("__call__", self, [number |-> number], __call__(self, number))

numOperator(name, x, other) ==
    CASE name = "__add__" -> __add__(x, other)
      [] name = "__sub__" -> __sub__(x, other)
      [] name = "__mul__" -> __mul__(x, other)
      [] name = "__truediv__" -> __truediv__(x, other)
      [] name = "__mod__" -> __mod__(x, other)

\* x + other, x - other, x * other, x / other, x % other with `other` of
\* another format
NumOperator ==
    /\ pc = "idle"
    /\ \E name \in NumOps, from \in AllFormats \ {F1} :
       \E x \in Operands(F1), other \in CrossOperands(from) :
           Returns(name, F1, [x |-> x, y |-> other], numOperator(name, x, other))

Next ==
    \/ Pack
    \/ Add
    \/ Sub
    \/ Mul
    \/ Div
    \/ Mod
    \/ Compare
    \/ Sin
    \/ SinLoop
    \/ SinReturn
    \/ Sqrt
    \/ SqrtLoop
    \/ SqrtReturn
    \/ SqrtWide
    \/ SqrtWideLoop
    \/ SqrtWideReturn
    \/ Call
    \/ NumOperator

Spec == Init /\ [][Next]_vars

---------------------------------------------------------------------------
(* What the claims speak of, defined apart from the code's own predicates. *)

Sign(n) == IF n > 0 THEN 1 ELSE IF n < 0 THEN -1 ELSE 0

RECURSIVE Digits(_)
\* the number of decimal digits of |n|; 0 has none
Digits(n) == IF n = 0 THEN 0 ELSE 1 + Digits(Abs(n) \div 10)

\* n / d rounded to the nearest integer, exact ties to the even neighbour (n >= 0, d > 0)
RoundHalfEven(n, d) ==
    LET q == n \div d
        r == n % d
    IN  IF 2 * r < d THEN q
        ELSE IF 2 * r > d THEN q + 1
        ELSE IF q % 2 = 0 THEN q ELSE q + 1

IsNum(r) == r.kind = "num"

IsZero(self, n) == IsNum(n) /\ n.mantissa = 0 /\ n.exponent = self.SPECIAL

IsUndefined(self, n) == IsNum(n) /\ n.mantissa = -1 /\ n.exponent = self.SPECIAL

IsFinite(self, n) ==
    /\ IsNum(n)
    /\ self.MANTISSA_MIN <= Abs(n.mantissa) /\ Abs(n.mantissa) <= self.MANTISSA_MAX
    /\ self.EXPONENT_MIN <= n.exponent /\ n.exponent <= self.EXPONENT_MAX

\* exactly one of the three
ExactlyOne(a, b, c) == (a /\ ~b /\ ~c) \/ (~a /\ b /\ ~c) \/ (~a /\ ~b /\ c)

\* the numeric value of x is less than that of y (x, y zero or finite):
\* mantissa * 10^(exponent - DIGITS + 1), both scaled by the lower exponent
ValueLess(x, y) ==
    LET lo == Min(x.exponent, y.exponent)
    IN  x.mantissa * 10^(x.exponent - lo) < y.mantissa * 10^(y.exponent - lo)

\* |mantissa| has more than DIGITS digits and rounds up to the next power of ten
RoundsToNextPower(self, mantissa) ==
    LET INDEX == Digits(mantissa) - self.DIGITS
    IN  INDEX > 0 /\ 2 * Abs(mantissa) >= 2 * 10^Digits(mantissa) - 10^INDEX

Self == FormatOf(fmt)

---------------------------------------------------------------------------
(* The claims.                                                             *)

\* C1: pack rounds half-to-even.  When the mantissa has more digits than DIGITS
\* (INDEX > 0) and the result is finite, the kept mantissa is |mantissa| / 10^INDEX
\* rounded to the nearest integer, exact ties to the even neighbour (and cut by
\* one digit more when that rounding reaches 10^DIGITS).
C1_PackRoundsHalfEven ==
    op = "pack" =>
        LET INDEX == Digits(args.mantissa) - Self.DIGITS
            ideal == RoundHalfEven(Abs(args.mantissa), 10^INDEX)
        IN  (INDEX > 0 /\ IsFinite(Self, res)) =>
                Abs(res.mantissa) = (IF ideal > Self.MANTISSA_MAX THEN ideal \div 10 ELSE ideal)

\* C2: pack returns a Number in canonical form: exactly one of zero, undefined
\* and finite, for every mantissa, exponent and expected.
C2_PackCanonical ==
    op = "pack" =>
        /\ IsNum(res)
        /\ res.format = fmt
        /\ ExactlyOne(IsZero(Self, res), IsUndefined(Self, res), IsFinite(Self, res))

\* C2's case: a rounding that carried into an extra digit, and a finite result
C2_Witness ==
    /\ op = "pack"
    /\ RoundsToNextPower(Self, args.mantissa)
    /\ IsFinite(Self, res)
    /\ Abs(res.mantissa) = Self.MANTISSA_MIN

\* an operand that is neither zero nor finite
Poisoned(self, n) == ~(IsZero(self, n) \/ IsFinite(self, n))

\* C3: undefined is a poison value.  add, sub, mul, div and mod with a poisoned
\* operand on either side, and sqrt and sin of a poisoned operand, return the
\* format's undefined (and so raise nothing), whatever the other operand is.
C3_UndefinedPoisons ==
    /\ (op \in ArithOps /\ (Poisoned(Self, args.x) \/ Poisoned(Self, args.y)))
           => res = undefined(Self)
    /\ (op \in {"sin", "sqrt"} /\ Poisoned(Self, args.number))
           => (pc = "done" /\ res = undefined(Self))

\* C3's case: mod of a finite number by undefined has returned
C3_Witness ==
    /\ op = "mod"
    /\ IsFinite(Self, args.x)
    /\ IsUndefined(Self, args.y)
    /\ res = undefined(Self)

\* C4: the order encoding is monotone in numeric value.  For x and y zero or
\* finite, lt, le, gt and ge hold exactly when the numeric values are so ordered.
C4_CompactMonotone ==
    (op \in {"lt", "le", "gt", "ge"} /\ ~Poisoned(Self, args.x) /\ ~Poisoned(Self, args.y)) =>
        res.value = (CASE op = "lt" -> ValueLess(args.x, args.y)
                       [] op = "le" -> ~ValueLess(args.y, args.x)
                       [] op = "gt" -> ValueLess(args.y, args.x)
                       [] op = "ge" -> ~ValueLess(args.x, args.y))

\* C5 as claimed: for a nonzero mantissa whose digit count is `expected`, pack
\* returns undefined whenever exponent > EXPONENT_MAX and zero whenever
\* exponent < EXPONENT_MIN.
C5_PackOverflowUnderflow ==
    (op = "pack" /\ args.mantissa # 0 /\ Digits(args.mantissa) = args.expected) =>
        /\ args.exponent > Self.EXPONENT_MAX => res = undefined(Self)
        /\ args.exponent < Self.EXPONENT_MIN => res = zero(Self)

\* C5 as amended: as claimed, except that at exponent = EXPONENT_MIN - 1 a
\* mantissa that rounds up to the next power of ten comes back finite, as
\* +-MANTISSA_MIN at EXPONENT_MIN.
C5_PackOverflowUnderflowCarry ==
    (op = "pack" /\ args.mantissa # 0 /\ Digits(args.mantissa) = args.expected) =>
        /\ args.exponent > Self.EXPONENT_MAX => res = undefined(Self)
        /\ args.exponent < Self.EXPONENT_MIN =>
               res = (IF args.exponent = Self.EXPONENT_MIN - 1
                         /\ RoundsToNextPower(Self, args.mantissa)
                      THEN Num(Sign(args.mantissa) * Self.MANTISSA_MIN, Self.EXPONENT_MIN, Self)
                      ELSE zero(Self))

\* C5's case: an exponent one below the range, lifted into it by the carry
C5_Witness ==
    /\ op = "pack"
    /\ args.mantissa < 0
    /\ Digits(args.mantissa) = args.expected
    /\ args.exponent = Self.EXPONENT_MIN - 1
    /\ IsFinite(Self, res)

\* C6: additive identity.  add(x, zero) and add(zero, x) return x, for every
\* finite x.
C6_AddZeroIdentity ==
    op = "add" =>
        /\ (IsFinite(Self, args.x) /\ IsZero(Self, args.y)) => res = args.x
        /\ (IsZero(Self, args.x) /\ IsFinite(Self, args.y)) => res = args.y

\* C7: undefined compares unequal to itself: eq(u, u) is false, ne(u, u) true.
C7_UndefinedUnequalToItself ==
    (op \in {"eq", "ne"} /\ IsUndefined(Self, args.x) /\ IsUndefined(Self, args.y)) =>
        res.value = (op = "ne")

\* C10: mod's result takes its sign from x: for finite x and y it is zero or has
\* the sign of x.
C10_ModSignOfX ==
    (op = "mod" /\ IsFinite(Self, args.x) /\ IsFinite(Self, args.y)) =>
        /\ IsNum(res)
        /\ IsZero(Self, res) \/ Sign(res.mantissa) = Sign(args.x.mantissa)

\* the loop body maps such locals to locals of the same kind: term is -1, and
\* -n2 // d is -1 again for the next divisor d and every later, larger one
SinStuck(l) ==
    /\ l.term = -1
    /\ l.n2 > 0
    /\ l.n2 <= (l.order + 1) * (l.order + 2) * l.SCALE

\* a pass of the loop body leaves stuck locals stuck
SinStuckStays ==
    [][(pc = "loop" /\ loc.proc = "sin" /\ SinStuck(loc))
           => (pc' = "loop" /\ SinStuck(loc'))]_vars

\* C8: sin terminates.  The Taylor loop reaches term = 0: it is never at its
\* head with locals from which no number of passes makes term 0.
C8_SinLoopReachesZero ==
    ~(pc = "loop" /\ loc.proc = "sin" /\ SinStuck(loc))

\* the iterate that follows `result` is the one that came before it: the loop
\* body is a function of `result` alone, so the two alternate for ever
SqrtOscillates ==
    /\ pc = "loop"
    /\ \/ /\ loc.proc = "sqrt"
          /\ sqrtNEXT(loc.original, loc.result) # loc.result
          /\ sqrtNEXT(loc.original, loc.result) = loc.prev
       \/ /\ loc.proc = "sqrtWide"
          /\ sqrtNEXTWide(loc.original, loc.result) # loc.result
          /\ sqrtNEXTWide(loc.original, loc.result) = loc.prev

\* C9: sqrt terminates.  The Newton-Raphson loop reaches NEXT = result: it never
\* oscillates between two values.
C9_SqrtLoopReachesFixedPoint == ~SqrtOscillates

\* C11: format conversion preserves undefined.  The undefined of one format
\* converted into another format is that format's undefined, and x + u, x - u,
\* x * u, x / u and x % u with u the undefined of another format return the
\* undefined of x's format.
C11_CallPreservesUndefined ==
    /\ (op = "__call__" /\ args.number.format # fmt
            /\ args.number = undefined(FormatOf(args.number.format)))
           => res = undefined(Self)
    /\ (op \in NumOps /\ args.y.format # fmt
            /\ args.y = undefined(FormatOf(args.y.format)))
           => res = undefined(Self)

=============================================================================
